---- MODULE Spec2Model ----
(***************************************************************************)
(* MexCine web client: the App component of src/unnamed/part_000 (the      *)
(* paginated variant) and of src/frontend/src/App.jsx (the variant without *)
(* pagination), as a state machine over the component's useState fields,   *)
(* the requests awaiting their response and the controls the current       *)
(* render offers.                                                          *)
(***************************************************************************)
EXTENDS Integers, Sequences, FiniteSets, TLC

VARIABLES variante, descripcion, recomendaciones, estadoApp, error,
          cantidadVisible, inflight, dispatched, vigente, ev

(* the App component of src/frontend/src/App.jsx mounted beside the        *)
(* paginated one and fed the same events: its useState fields and its      *)
(* requests awaiting their response                                        *)
VARIABLES descripcionB, recomendacionesB, estadoAppB, errorB, inflightB,
          dispatchedB

varsB == <<descripcionB, recomendacionesB, estadoAppB, errorB, inflightB,
           dispatchedB>>

vars == <<variante, descripcion, recomendaciones, estadoApp, error,
          cantidadVisible, inflight, dispatched, vigente, ev, varsB>>

(* the fields of the first component, all but the record of the last event *)
varsA == <<variante, descripcion, recomendaciones, estadoApp, error,
           cantidadVisible, inflight, dispatched, vigente>>

(* the useState fields a response or a submit may set, besides the query *)
vista == <<estadoApp, recomendaciones, error, cantidadVisible>>

----------------------------------------------------------------------------
(* Bounds *)

MaxLen == 2

MaxItems == 7

MaxRequests == 2

----------------------------------------------------------------------------
(* Values *)

PAGINADA == "part_000"

BASICA == "App.jsx"

Variantes == {PAGINADA, BASICA}

null == "null"

PageSize == 3

Chars == {" ", "a"}

Textos == UNION {[1..n -> Chars] : n \in 0..MaxLen}

Keys == {"Enter", "a"}

Estados == {"buscando", "cargando", "resultados", "sin_resultados", "error"}

RECURSIVE trimStart(_)
trimStart(s) == IF s # <<>> /\ Head(s) = " " THEN trimStart(Tail(s)) ELSE s

RECURSIVE trimEnd(_)
trimEnd(s) ==
    IF s # <<>> /\ s[Len(s)] = " " THEN trimEnd(SubSeq(s, 1, Len(s) - 1)) ELSE s

(* String.prototype.trim *)
trim(s) == trimEnd(trimStart(s))

(* what axios.post settles with: respuesta.data of a 2xx response, or a   *)
(* rejection (network exception, non-2xx status) carrying a raw message    *)
Array(n) == [tipo |-> "array", datos |-> [i \in 1..n |-> i], err |-> ""]

Ausente == [tipo |-> "ausente", datos |-> <<>>, err |-> ""]

Objeto == [tipo |-> "objeto", datos |-> <<>>, err |-> ""]

Cadena == [tipo |-> "cadena", datos |-> <<60>>, err |-> ""]

Fallo(m) == [tipo |-> "fallo", datos |-> <<>>, err |-> m]

ErroresCrudos == {"Network Error", "Request failed with status code 500"}

Exitos == {Array(n) : n \in 0..MaxItems} \cup {Ausente, Objeto, Cadena}

Resultados == Exitos \cup {Fallo(m) : m \in ErroresCrudos}

Ninguno == [tipo |-> "ninguno", datos |-> <<>>, err |-> ""]

(* JavaScript truthiness of respuesta.data *)
Truthy(data) == data.tipo \in {"array", "objeto", "cadena"}

(* the comparison written as > 1 *)
lengthPositiva_mayorQueUno(data) ==
    data.tipo \in {"array", "cadena"} /\ Len(data.datos) > 1

(* the comparison written as >= 0 *)
lengthPositiva_noEstricta(data) ==
    data.tipo \in {"array", "cadena"} /\ Len(data.datos) >= 0

(* respuesta.data.length > 0: undefined > 0 is false for a plain object *)
lengthPositiva(data) == data.tipo \in {"array", "cadena"} /\ Len(data.datos) > 0

MENSAJE_ERROR ==
    IF variante = PAGINADA
    THEN "No se pudo establecer conexion con el motor de recomendacion."
    ELSE "Error de conexion con el servidor."

Evento(op, key, id, res) == [op |-> op, key |-> key, id |-> id, res |-> res]

----------------------------------------------------------------------------
(* Render: which controls the current state offers *)

(* peliculasVisibles.map / recomendaciones.map throws when the stored      *)
(* value is a string: the render fails and the component is unmounted      *)
renderLanza == estadoApp = "resultados" /\ recomendaciones.tipo # "array"

montado == ~renderLanza

(* renderBuscando: the input and the search button *)
buscadorVisible == montado /\ estadoApp \in {"buscando", "cargando"}

(* the buttons bound to volverABuscar *)
volverVisible == montado /\ estadoApp \in {"resultados", "sin_resultados"}

Min(a, b) == IF a < b THEN a ELSE b

Max(a, b) == IF a > b THEN a ELSE b

(* Array.prototype.slice(inicio, fin), indices counted from 0: negative    *)
(* arguments count from the end, both are clamped to the length            *)
slice(s, inicio, fin) ==
    LET n == Len(s)
        k == IF inicio < 0 THEN Max(n + inicio, 0) ELSE Min(inicio, n)
        f == IF fin < 0 THEN Max(n + fin, 0) ELSE Min(fin, n)
    IN  IF k >= f THEN <<>> ELSE SubSeq(s, k + 1, f)

(* the cumulative list, slice(0, cantidadVisible) *)
peliculasVisibles_acumulativa ==
    IF variante = PAGINADA
    THEN slice(recomendaciones.datos, 0, cantidadVisible)
    ELSE recomendaciones.datos

(* the cards renderResultados maps over: the slice of the paginated        *)
(* variant, the whole list of the variant without pagination               *)
peliculasVisibles ==
    IF variante = PAGINADA
    THEN slice(recomendaciones.datos, cantidadVisible - 3, cantidadVisible)
    ELSE recomendaciones.datos

hayMasOpciones == cantidadVisible < Len(recomendaciones.datos)

(* the paragraph "Analizando sinopsis...", rendered by part_000 only *)
cargandoVisible == montado /\ variante = PAGINADA /\ estadoApp = "cargando"

(* renderResultados *)
listaVisible == montado /\ estadoApp = "resultados"

(* the empty message rendered whenever the stored list is empty *)
sinResultadosVisible_porLista == montado /\ Len(recomendaciones.datos) = 0

(* renderSinResultados *)
sinResultadosVisible == montado /\ estadoApp = "sin_resultados"

(* the heading that shows error *)
mensajeErrorVisible == montado /\ estadoApp = "error"

(* the branches of the content container the current render shows *)
ramasVisibles ==
    {b \in {"formulario", "cargando", "lista", "sin_resultados", "error"} :
        \/ b = "formulario" /\ buscadorVisible
        \/ b = "cargando" /\ cargandoVisible
        \/ b = "lista" /\ listaVisible
        \/ b = "sin_resultados" /\ sinResultadosVisible
        \/ b = "error" /\ mensajeErrorVisible}

(* the button bound to mostrarMas *)
mostrarMasVisible ==
    montado /\ variante = PAGINADA /\ estadoApp = "resultados" /\ hayMasOpciones

(* the button of the variant without pagination that only alerts *)
alertVisible == montado /\ variante = BASICA /\ estadoApp = "resultados"

----------------------------------------------------------------------------
(* State after construction *)

Init ==
    /\ variante \in Variantes
    /\ descripcion = <<>>
    /\ recomendaciones = Array(0)
    /\ estadoApp = "buscando"
    /\ error = null
    /\ cantidadVisible = PageSize
    /\ inflight = {}
    /\ dispatched = 0
    /\ vigente = 0
    /\ ev = Evento("init", "", 0, Ninguno)
    /\ descripcionB = <<>>
    /\ recomendacionesB = Array(0)
    /\ estadoAppB = "buscando"
    /\ errorB = null
    /\ inflightB = {}
    /\ dispatchedB = 0

----------------------------------------------------------------------------
(* Handlers *)

(* onChange of the input: setDescripcion(e.target.value) *)
onChange(v) ==
    /\ buscadorVisible
    /\ descripcion' = v
    /\ ev' = Evento("onChange", "", 0, Ninguno)
    /\ UNCHANGED <<variante, recomendaciones, estadoApp, error,
                   cantidadVisible, inflight, dispatched, vigente>>

(* handleBuscar without the validation of the empty query *)
handleBuscar_sinValidar ==
    /\ dispatched < MaxRequests
    /\ error' = null
    /\ estadoApp' = "cargando"
    /\ cantidadVisible' = PageSize
    /\ dispatched' = dispatched + 1
    /\ inflight' = inflight \cup
           {[id |-> dispatched + 1, descripcion |-> descripcion]}
    /\ vigente' = dispatched + 1
    /\ UNCHANGED <<variante, descripcion, recomendaciones>>

(* handleBuscar posting the trimmed query instead of the query as typed *)
handleBuscar_cuerpoRecortado ==
    IF trim(descripcion) = <<>>
    THEN UNCHANGED <<variante, descripcion, recomendaciones, estadoApp, error,
                     cantidadVisible, inflight, dispatched, vigente>>
    ELSE /\ dispatched < MaxRequests
         /\ error' = null
         /\ estadoApp' = "cargando"
         /\ cantidadVisible' = PageSize
         /\ dispatched' = dispatched + 1
         /\ inflight' = inflight \cup
                {[id |-> dispatched + 1, descripcion |-> trim(descripcion)]}
         /\ vigente' = dispatched + 1
         /\ UNCHANGED <<variante, descripcion, recomendaciones>>

(* handleBuscar up to the await: validation, reset of the previous state,  *)
(* axios.post with the query of the current render                         *)
handleBuscar ==
    IF trim(descripcion) = <<>>
    THEN UNCHANGED <<variante, descripcion, recomendaciones, estadoApp, error,
                     cantidadVisible, inflight, dispatched, vigente>>
    ELSE /\ dispatched < MaxRequests
         /\ error' = null
         /\ estadoApp' = "cargando"
         /\ cantidadVisible' = PageSize
         /\ dispatched' = dispatched + 1
         /\ inflight' = inflight \cup
                {[id |-> dispatched + 1, descripcion |-> descripcion]}
         /\ vigente' = dispatched + 1
         /\ UNCHANGED <<variante, descripcion, recomendaciones>>

(* onClick of the search button *)
onClick ==
    /\ buscadorVisible
    /\ handleBuscar
    /\ ev' = Evento("onClick", "", 0, Ninguno)

(* handleKeyDown calling handleBuscar whatever the key is *)
handleKeyDown_cualquierTecla(key) ==
    /\ buscadorVisible
    /\ handleBuscar
    /\ ev' = Evento("onKeyDown", key, 0, Ninguno)

(* onKeyDown of the input *)
handleKeyDown(key) ==
    /\ buscadorVisible
    /\ IF key = "Enter"
       THEN handleBuscar
       ELSE UNCHANGED <<variante, descripcion, recomendaciones, estadoApp,
                        error, cantidadVisible, inflight, dispatched, vigente>>
    /\ ev' = Evento("onKeyDown", key, 0, Ninguno)

(* the catch block storing the message of the raw error *)
mensajeCatch_crudo(res) == res.err

(* the message the catch block stores *)
mensajeCatch(res) == MENSAJE_ERROR

(* the continuation whose else branch omits setEstadoApp *)
continuar_sinEstadoVacio(res) ==
    IF res.tipo = "fallo"
    THEN /\ error' = mensajeCatch(res)
         /\ estadoApp' = "error"
         /\ UNCHANGED recomendaciones
    ELSE IF Truthy(res) /\ lengthPositiva(res)
    THEN /\ recomendaciones' = [tipo |-> res.tipo, datos |-> res.datos, err |-> ""]
         /\ estadoApp' = "resultados"
         /\ UNCHANGED error
    ELSE /\ recomendaciones' = Array(0)
         /\ UNCHANGED <<estadoApp, error>>

(* handleBuscar after the await: the try branch on respuesta.data, the     *)
(* catch branch on a rejection; the setters are applied whatever the       *)
(* state has become meanwhile                                              *)
continuar(res) ==
    IF res.tipo = "fallo"
    THEN /\ error' = mensajeCatch(res)
         /\ estadoApp' = "error"
         /\ UNCHANGED recomendaciones
    ELSE IF Truthy(res) /\ lengthPositiva(res)
    THEN /\ recomendaciones' = [tipo |-> res.tipo, datos |-> res.datos, err |-> ""]
         /\ estadoApp' = "resultados"
         /\ UNCHANGED error
    ELSE /\ recomendaciones' = Array(0)
         /\ estadoApp' = "sin_resultados"
         /\ UNCHANGED error

(* the promise of request r settles with res *)
respuesta(r, res) ==
    /\ montado
    /\ r \in inflight
    /\ inflight' = inflight \ {r}
    /\ continuar(res)
    /\ ev' = Evento("respuesta", "", r.id, res)
    /\ UNCHANGED <<variante, descripcion, cantidadVisible, dispatched, vigente>>

(* volverABuscar without setDescripcion("") *)
volverABuscar_sinDescripcion ==
    /\ volverVisible
    /\ estadoApp' = "buscando"
    /\ recomendaciones' = Array(0)
    /\ error' = null
    /\ cantidadVisible' = PageSize
    /\ vigente' = 0
    /\ ev' = Evento("volverABuscar", "", 0, Ninguno)
    /\ UNCHANGED <<variante, descripcion, inflight, dispatched>>

(* volverABuscar without setCantidadVisible(3) *)
volverABuscar_sinPaginador ==
    /\ volverVisible
    /\ estadoApp' = "buscando"
    /\ recomendaciones' = Array(0)
    /\ descripcion' = <<>>
    /\ error' = null
    /\ vigente' = 0
    /\ ev' = Evento("volverABuscar", "", 0, Ninguno)
    /\ UNCHANGED <<variante, cantidadVisible, inflight, dispatched>>

volverABuscar ==
    /\ volverVisible
    /\ estadoApp' = "buscando"
    /\ recomendaciones' = Array(0)
    /\ descripcion' = <<>>
    /\ error' = null
    /\ cantidadVisible' = PageSize
    /\ vigente' = 0
    /\ ev' = Evento("volverABuscar", "", 0, Ninguno)
    /\ UNCHANGED <<variante, inflight, dispatched>>

mostrarMas ==
    /\ mostrarMasVisible
    /\ cantidadVisible' = cantidadVisible + PageSize
    /\ ev' = Evento("mostrarMas", "", 0, Ninguno)
    /\ UNCHANGED <<variante, descripcion, recomendaciones, estadoApp, error,
                   inflight, dispatched, vigente>>

(* onClick of "Quiero mas opciones" in the variant without pagination *)
alertProximamente ==
    /\ alertVisible
    /\ ev' = Evento("alert", "", 0, Ninguno)
    /\ UNCHANGED <<variante, descripcion, recomendaciones, estadoApp, error,
                   cantidadVisible, inflight, dispatched, vigente>>

Escribir == \E v \in Textos : onChange(v)

Tecla == \E key \in Keys : handleKeyDown(key)

Responder == \E r \in inflight : \E res \in Resultados : respuesta(r, res)

(* one component mounted alone: the one beside it is not there *)
Next ==
    \/ Escribir /\ UNCHANGED varsB
    \/ onClick /\ UNCHANGED varsB
    \/ Tecla /\ UNCHANGED varsB
    \/ Responder /\ UNCHANGED varsB
    \/ volverABuscar /\ UNCHANGED varsB
    \/ mostrarMas /\ UNCHANGED varsB
    \/ alertProximamente /\ UNCHANGED varsB

Spec == Init /\ [][Next]_vars

(* every request awaiting its response is eventually settled *)
SpecVivo == Spec /\ WF_vars(Responder /\ UNCHANGED varsB)

----------------------------------------------------------------------------
(* The component of src/frontend/src/App.jsx, beside the paginated one *)

MENSAJE_ERROR_B == "Error de conexion con el servidor."

(* recomendaciones.map throws when the stored value is a string *)
renderLanzaB == estadoAppB = "resultados" /\ recomendacionesB.tipo # "array"

montadoB == ~renderLanzaB

buscadorVisibleB == montadoB /\ estadoAppB \in {"buscando", "cargando"}

volverVisibleB == montadoB /\ estadoAppB \in {"resultados", "sin_resultados"}

onChangeB(v) ==
    /\ descripcionB' = v
    /\ UNCHANGED <<recomendacionesB, estadoAppB, errorB, inflightB, dispatchedB>>

(* handleBuscar comparing the query with "" without trimming it *)
handleBuscarB_sinTrim ==
    IF descripcionB = <<>>
    THEN UNCHANGED varsB
    ELSE /\ dispatchedB < MaxRequests
         /\ errorB' = null
         /\ estadoAppB' = "cargando"
         /\ dispatchedB' = dispatchedB + 1
         /\ inflightB' = inflightB \cup
                {[id |-> dispatchedB + 1, descripcion |-> descripcionB]}
         /\ UNCHANGED <<descripcionB, recomendacionesB>>

(* handleBuscar up to the await *)
handleBuscarB ==
    IF trim(descripcionB) = <<>>
    THEN UNCHANGED varsB
    ELSE /\ dispatchedB < MaxRequests
         /\ errorB' = null
         /\ estadoAppB' = "cargando"
         /\ dispatchedB' = dispatchedB + 1
         /\ inflightB' = inflightB \cup
                {[id |-> dispatchedB + 1, descripcion |-> descripcionB]}
         /\ UNCHANGED <<descripcionB, recomendacionesB>>

handleKeyDownB(key) ==
    IF key = "Enter" THEN handleBuscarB ELSE UNCHANGED varsB

(* handleBuscar after the await *)
continuarB(res) ==
    IF res.tipo = "fallo"
    THEN /\ errorB' = MENSAJE_ERROR_B
         /\ estadoAppB' = "error"
         /\ UNCHANGED recomendacionesB
    ELSE IF Truthy(res) /\ lengthPositiva(res)
    THEN /\ recomendacionesB' = [tipo |-> res.tipo, datos |-> res.datos, err |-> ""]
         /\ estadoAppB' = "resultados"
         /\ UNCHANGED errorB
    ELSE /\ recomendacionesB' = Array(0)
         /\ estadoAppB' = "sin_resultados"
         /\ UNCHANGED errorB

respuestaB(r, res) ==
    /\ r \in inflightB
    /\ inflightB' = inflightB \ {r}
    /\ continuarB(res)
    /\ UNCHANGED <<descripcionB, dispatchedB>>

volverABuscarB ==
    /\ estadoAppB' = "buscando"
    /\ recomendacionesB' = Array(0)
    /\ descripcionB' = <<>>
    /\ errorB' = null
    /\ UNCHANGED <<inflightB, dispatchedB>>

----------------------------------------------------------------------------
(* Both components side by side: every keystroke, submit, response and     *)
(* reset reaches each component whose render offers the control (or whose  *)
(* request it settles)                                                     *)

InitPar == Init /\ variante = PAGINADA

ParEscribir ==
    \E v \in Textos :
        /\ buscadorVisible \/ buscadorVisibleB
        /\ IF buscadorVisible THEN onChange(v)
           ELSE ev' = Evento("onChange", "", 0, Ninguno) /\ UNCHANGED varsA
        /\ IF buscadorVisibleB THEN onChangeB(v) ELSE UNCHANGED varsB

ParClick ==
    /\ buscadorVisible \/ buscadorVisibleB
    /\ IF buscadorVisible THEN onClick
       ELSE ev' = Evento("onClick", "", 0, Ninguno) /\ UNCHANGED varsA
    /\ IF buscadorVisibleB THEN handleBuscarB ELSE UNCHANGED varsB

ParTecla ==
    \E key \in Keys :
        /\ buscadorVisible \/ buscadorVisibleB
        /\ IF buscadorVisible THEN handleKeyDown(key)
           ELSE ev' = Evento("onKeyDown", key, 0, Ninguno) /\ UNCHANGED varsA
        /\ IF buscadorVisibleB THEN handleKeyDownB(key) ELSE UNCHANGED varsB

(* the requests both components dispatched as their id-th settle alike *)
ParResponder ==
    \E id \in 1..MaxRequests : \E res \in Resultados :
        LET ra == {r \in inflight : r.id = id}
            rb == {r \in inflightB : r.id = id}
        IN  /\ (montado /\ ra # {}) \/ (montadoB /\ rb # {})
            /\ IF montado /\ ra # {} THEN \E r \in ra : respuesta(r, res)
               ELSE ev' = Evento("respuesta", "", id, res) /\ UNCHANGED varsA
            /\ IF montadoB /\ rb # {} THEN \E r \in rb : respuestaB(r, res)
               ELSE UNCHANGED varsB

ParVolver ==
    /\ volverVisible \/ volverVisibleB
    /\ IF volverVisible THEN volverABuscar
       ELSE ev' = Evento("volverABuscar", "", 0, Ninguno) /\ UNCHANGED varsA
    /\ IF volverVisibleB THEN volverABuscarB ELSE UNCHANGED varsB

(* "Quiero mas opciones": mostrarMas in the paginated component, an alert  *)
(* that sets nothing in the other                                          *)
ParMostrarMas == mostrarMas /\ UNCHANGED varsB

NextPar ==
    \/ ParEscribir
    \/ ParClick
    \/ ParTecla
    \/ ParResponder
    \/ ParVolver
    \/ ParMostrarMas

SpecPar == InitPar /\ [][NextPar]_vars

----------------------------------------------------------------------------
(* Properties *)

esSubmit(e) == e.op = "onClick" \/ (e.op = "onKeyDown" /\ e.key = "Enter")

(* C1: at most one request dispatched by handleBuscar is awaiting its      *)
(* response in any reachable state, so a submit during 'cargando' never    *)
(* leaves two responses to set the final view state.                       *)
C1_SinSolapamiento == Cardinality(inflight) <= 1

(* C2: a response to a request that is not the most recently dispatched    *)
(* one, or that arrives after a reset, changes none of estadoApp,          *)
(* recomendaciones, error and cantidadVisible.                             *)
C2_DescartaObsoletas ==
    [][(ev'.op = "respuesta" /\ ev'.id # vigente) => UNCHANGED vista]_vars

TablaTransiciones ==
    {<<"buscando", "cargando", "submit">>,
     <<"cargando", "resultados", "respuesta">>,
     <<"cargando", "sin_resultados", "respuesta">>,
     <<"cargando", "error", "respuesta">>,
     <<"resultados", "buscando", "volverABuscar">>,
     <<"sin_resultados", "buscando", "volverABuscar">>,
     <<"error", "buscando", "volverABuscar">>}

disparador(e) == IF esSubmit(e) THEN "submit" ELSE e.op

(* C3: every change of estadoApp is a transition of the table, taken by    *)
(* the trigger the table names; no response moves the state out of         *)
(* buscando, resultados, sin_resultados or error.                          *)
C3_SoloTransicionesDeTabla ==
    [][estadoApp' # estadoApp =>
         <<estadoApp, estadoApp', disparador(ev')>> \in TablaTransiciones]_vars

(* C4: whenever the mounted component has estadoApp resultados,            *)
(* sin_resultados or error, the control bound to volverABuscar is          *)
(* rendered, so volverABuscar is enabled.                                  *)
C4_ResetDisponible ==
    (montado /\ estadoApp \in {"resultados", "sin_resultados", "error"})
        => (volverVisible /\ ENABLED volverABuscar)

(* C5: a submit whose trimmed query is empty dispatches nothing and leaves *)
(* estadoApp, recomendaciones, error and cantidadVisible unchanged; a      *)
(* request is dispatched only when the trimmed query is non-empty.         *)
C5_SubmitVacioNoOp ==
    [][/\ (esSubmit(ev') /\ trim(descripcion) = <<>>)
            => UNCHANGED <<vista, inflight, dispatched>>
       /\ (dispatched' # dispatched \/ ~(inflight' \subseteq inflight))
            => trim(descripcion) # <<>>]_vars

C5_Witness ==
    /\ esSubmit(ev)
    /\ descripcion = <<" ">>
    /\ estadoApp = "buscando"
    /\ inflight = {}

(* C6: a submit with a non-empty trimmed query sets estadoApp to cargando, *)
(* error to null and cantidadVisible to 3, and adds exactly one request,   *)
(* whose body is the query text as it is at the submit.                    *)
C6_SubmitDespacha ==
    [][(esSubmit(ev') /\ trim(descripcion) # <<>>) =>
         /\ estadoApp' = "cargando"
         /\ error' = null
         /\ cantidadVisible' = 3
         /\ dispatched' = dispatched + 1
         /\ \E r \in inflight' :
              /\ r \notin inflight
              /\ inflight' = inflight \cup {r}
              /\ r.descripcion = descripcion]_vars

C6_Witness ==
    /\ esSubmit(ev)
    /\ estadoApp = "cargando"
    /\ descripcion = <<" ", "a">>
    /\ \E r \in inflight : r.id = dispatched /\ r.descripcion = descripcion

(* C7: after a successful response carrying an array of N >= 1 items,      *)
(* estadoApp is resultados and recomendaciones is the array received.      *)
C7_ExitoConItems ==
    (ev.op = "respuesta" /\ ev.res.tipo = "array" /\ Len(ev.res.datos) >= 1)
        => /\ estadoApp = "resultados"
           /\ recomendaciones.tipo = "array"
           /\ recomendaciones.datos = ev.res.datos
           /\ Len(recomendaciones.datos) = Len(ev.res.datos)

C7_Witness ==
    /\ ev.op = "respuesta"
    /\ ev.res = Array(1)
    /\ estadoApp = "resultados"

(* C8: after a successful response whose payload is an empty array or is   *)
(* absent, estadoApp is sin_resultados and recomendaciones is empty.       *)
C8_ExitoVacio ==
    (ev.op = "respuesta" /\ ev.res \in {Array(0), Ausente})
        => /\ estadoApp = "sin_resultados"
           /\ recomendaciones = Array(0)

C8_Witness ==
    /\ ev.op = "respuesta"
    /\ ev.res = Array(0)
    /\ estadoApp = "sin_resultados"

(* C9: after a rejection (network exception or non-2xx status), estadoApp  *)
(* is error and error is the fixed non-empty message of the variant, not   *)
(* the raw error.                                                          *)
C9_FalloMensajeFijo ==
    (ev.op = "respuesta" /\ ev.res.tipo = "fallo")
        => /\ estadoApp = "error"
           /\ error = MENSAJE_ERROR
           /\ error \notin {null, "", ev.res.err}

C9_Witness ==
    /\ ev.op = "respuesta"
    /\ ev.res = Fallo("Network Error")
    /\ estadoApp = "error"

(* C10: after a 2xx response whose payload is malformed (a plain object or *)
(* a string), estadoApp is error with a message stored; it is never        *)
(* resultados or sin_resultados.                                           *)
C10_MalformadoEsError ==
    (ev.op = "respuesta" /\ ev.res \in {Objeto, Cadena})
        => /\ estadoApp = "error"
           /\ error # null

(* C11: after volverABuscar, performed in resultados, sin_resultados or    *)
(* error, estadoApp is buscando, descripcion is empty, recomendaciones is  *)
(* the empty array, error is null and cantidadVisible is 3.                *)
C11_ResetLimpia ==
    [][ev'.op = "volverABuscar" =>
         /\ estadoApp \in {"resultados", "sin_resultados", "error"}
         /\ estadoApp' = "buscando"
         /\ descripcion' = <<>>
         /\ recomendaciones' = Array(0)
         /\ error' = null
         /\ cantidadVisible' = 3]_vars

C11_Witness ==
    /\ ev.op = "volverABuscar"
    /\ estadoApp = "buscando"
    /\ descripcion = <<>>
    /\ recomendaciones = Array(0)
    /\ cantidadVisible = 3

(* C12: error is non-null only while estadoApp is error.                   *)
C12_ErrorSoloEnError == error # null => estadoApp = "error"

(* C13: Enter in the input with a non-empty query makes the transition of  *)
(* the search button and dispatches exactly one request; any other key     *)
(* dispatches nothing and changes no field.                                *)
C13_EnterComoBoton ==
    [][ev'.op = "onKeyDown" =>
         IF ev'.key = "Enter"
         THEN /\ handleBuscar
              /\ dispatched' - dispatched =
                    (IF trim(descripcion) = <<>> THEN 0 ELSE 1)
              /\ Cardinality(inflight') - Cardinality(inflight) =
                    dispatched' - dispatched
         ELSE UNCHANGED <<variante, descripcion, recomendaciones, estadoApp,
                          error, cantidadVisible, inflight, dispatched,
                          vigente>>]_vars

C13_Witness ==
    /\ ev.op = "onKeyDown"
    /\ ev.key = "Enter"
    /\ estadoApp = "cargando"
    /\ dispatched = 1
    /\ Cardinality(inflight) = 1

paginando == montado /\ variante = PAGINADA /\ estadoApp = "resultados"

total == Len(recomendaciones.datos)

(* the indices, counted from 0, in [cantidadVisible - 3, cantidadVisible)  *)
(* that exist in the stored list                                           *)
indicesVentana ==
    {i \in 0..(total - 1) : cantidadVisible - 3 <= i /\ i < cantidadVisible}

(* C14: in the paginated variant the visible items are exactly the stored  *)
(* items at the indices of [cantidadVisible - 3, cantidadVisible), in      *)
(* order; the show-more control is rendered exactly while cantidadVisible  *)
(* < total; activating it adds 3. For total = 7: items 0..2, then 3..5     *)
(* with cantidadVisible 6, then item 6 with cantidadVisible 9 and no       *)
(* show-more control.                                                      *)
C14_VentanaDeslizante ==
    /\ [](paginando =>
            /\ Len(peliculasVisibles) = Cardinality(indicesVentana)
            /\ \A k \in 1..Len(peliculasVisibles) :
                 /\ cantidadVisible - 3 + k - 1 \in indicesVentana
                 /\ peliculasVisibles[k] =
                       recomendaciones.datos[cantidadVisible - 3 + k]
            /\ mostrarMasVisible <=> cantidadVisible < total
            /\ (total = 7 /\ cantidadVisible = 3)
                  => peliculasVisibles = <<1, 2, 3>>
            /\ (total = 7 /\ cantidadVisible = 6)
                  => peliculasVisibles = <<4, 5, 6>>
            /\ (total = 7 /\ cantidadVisible = 9)
                  => (peliculasVisibles = <<7>> /\ ~ENABLED mostrarMas))
    /\ [][ev'.op = "mostrarMas" =>
            (paginando /\ cantidadVisible' = cantidadVisible + 3)]_vars

C14_Witness ==
    /\ paginando
    /\ ev.op = "mostrarMas"
    /\ total = 7
    /\ cantidadVisible = 9
    /\ peliculasVisibles = <<7>>

(* C15: cantidadVisible never decreases between one submit or reset and    *)
(* the next, where it only changes by mostrarMas adding 3; it is 3 right   *)
(* after every submit with a non-empty trimmed query and after every       *)
(* reset.                                                                  *)
C15_PaginadorMonotono ==
    [][/\ cantidadVisible' < cantidadVisible
            => (esSubmit(ev') \/ ev'.op = "volverABuscar")
       /\ cantidadVisible' # cantidadVisible
            => \/ ev'.op = "mostrarMas" /\ cantidadVisible' = cantidadVisible + 3
               \/ (esSubmit(ev') \/ ev'.op = "volverABuscar")
                    /\ cantidadVisible' = 3
       /\ (esSubmit(ev') /\ trim(descripcion) # <<>>) => cantidadVisible' = 3
       /\ ev'.op = "volverABuscar" => cantidadVisible' = 3]_vars

C15_Witness ==
    /\ ev.op = "mostrarMas"
    /\ cantidadVisible = 6
    /\ estadoApp = "resultados"

ramaDe(e) ==
    CASE e = "buscando" -> "formulario"
      [] e = "cargando" -> "cargando"
      [] e = "resultados" -> "lista"
      [] e = "sin_resultados" -> "sin_resultados"
      [] e = "error" -> "error"

(* C16 as stated: estadoApp is one of the five states and the mounted      *)
(* component shows exactly one branch, the one of that state.              *)
C16_UnaSolaRama ==
    /\ estadoApp \in Estados
    /\ montado => ramasVisibles = {ramaDe(estadoApp)}

ramasEsperadas ==
    CASE estadoApp = "buscando" -> {"formulario"}
      [] estadoApp = "cargando" ->
            IF variante = PAGINADA THEN {"formulario", "cargando"}
            ELSE {"formulario"}
      [] estadoApp = "resultados" -> {"lista"}
      [] estadoApp = "sin_resultados" -> {"sin_resultados"}
      [] estadoApp = "error" -> {"error"}

(* C16 as amended: estadoApp is one of the five states and the branches    *)
(* shown are those of that state alone: the search form in buscando; the   *)
(* search form in cargando, together with the loading message in the       *)
(* paginated variant; only the list in resultados, only the empty message  *)
(* in sin_resultados, only the error message in error; nothing when the    *)
(* render of the list throws.                                              *)
C16_RamasPorEstado ==
    /\ estadoApp \in Estados
    /\ ramasVisibles = IF montado THEN ramasEsperadas ELSE {}

C16_Witness ==
    /\ variante = PAGINADA
    /\ estadoApp = "cargando"
    /\ ramasVisibles = {"formulario", "cargando"}

(* C17: the stored list is non-empty if and only if estadoApp is           *)
(* resultados.                                                             *)
C17_ItemsSoloEnResultados == (total > 0) <=> (estadoApp = "resultados")

(* C18: in the paginated variant, whenever estadoApp is resultados the     *)
(* visible window is non-empty: cantidadVisible - 3 < number of stored     *)
(* items.                                                                  *)
C18_VentanaNoVacia == paginando => cantidadVisible - 3 < total

(* the windows shown from cantidadVisible = cv on, activating mostrarMas   *)
(* while hayMasOpciones                                                    *)
RECURSIVE ventanasDesde(_, _)
ventanasDesde(datos, cv) ==
    <<slice(datos, cv - 3, cv)>> \o
        (IF cv < Len(datos) THEN ventanasDesde(datos, cv + PageSize) ELSE <<>>)

RECURSIVE aplanar(_)
aplanar(ws) == IF ws = <<>> THEN <<>> ELSE Head(ws) \o aplanar(Tail(ws))

(* C19: in the paginated variant, for every list of N >= 1 items a         *)
(* response stores, the windows shown by activating mostrarMas until it is *)
(* no longer offered are ceil(N/3) in number and, one after the other,     *)
(* make up the stored list: each index appears in exactly one window.      *)
C19_VentanasParticionan ==
    [][(ev'.op = "respuesta" /\ paginando') =>
         LET ws == ventanasDesde(recomendaciones'.datos, cantidadVisible')
         IN  /\ Len(ws) = (Len(recomendaciones'.datos) + 2) \div 3
             /\ aplanar(ws) = recomendaciones'.datos]_vars

(* C20: if every request is eventually settled, cargando always leads to   *)
(* resultados, sin_resultados or error, and estadoApp is not cargando once *)
(* no request awaits its response.                                         *)
C20_CargandoTransitorio ==
    /\ (estadoApp = "cargando")
          ~> (estadoApp \in {"resultados", "sin_resultados", "error"})
    /\ [](inflight = {} => estadoApp # "cargando")

C20_Witness ==
    /\ ev.op = "respuesta"
    /\ inflight = {}
    /\ dispatched = 2
    /\ estadoApp \in {"resultados", "sin_resultados", "error"}

(* C21: run side by side on the same keystrokes, submits, responses and    *)
(* resets, the two components always have the same estadoApp, descripcion  *)
(* and recomendaciones, and error is null in one exactly when it is null   *)
(* in the other; mostrarMas, which only the paginated one has, changes     *)
(* cantidadVisible and none of those fields.                               *)
C21_MismaMaquina ==
    /\ [](/\ estadoApp = estadoAppB
          /\ descripcion = descripcionB
          /\ recomendaciones = recomendacionesB
          /\ (error = null) <=> (errorB = null))
    /\ [][cantidadVisible' > cantidadVisible =>
            UNCHANGED <<estadoApp, descripcion, recomendaciones, error, varsB>>]_vars

C21_Witness ==
    /\ ev.op = "mostrarMas"
    /\ cantidadVisible = 6
    /\ estadoAppB = "resultados"
    /\ recomendacionesB = Array(4)
    /\ inflightB # {}

====
